---- MODULE Spec2Model ----
(***************************************************************************)
(* Model of FireBot's paper-trading core:                                  *)
(*   - PortfolioSimulator  (src/src/firebot/execution/portfolio.py)        *)
(*   - PaperTradingEngine  (src/src/firebot/execution/engine.py)           *)
(*                                                                         *)
(* Number representation.  The code computes with decimal.Decimal.  A      *)
(* Decimal amount (cash, price, pnl) is modelled as an integer count of    *)
(* 10^-Places currency units; quantities are whole numbers, as the drivers *)
(* produce them.  Addition, subtraction and quantity*price are exact, as   *)
(* they are in Decimal for these magnitudes.  Division is not exact in     *)
(* Decimal (the context keeps a bounded number of digits and rounds half   *)
(* to even); here it rounds half to even at Places fractional digits.      *)
(* quantize(Decimal("0.01")) rounds half to even to whole cents.           *)
(*                                                                         *)
(* An Optional value is a sequence of length 0 (None) or 1 (the value).    *)
(* A raised exception is an outcome of the call: the action records it in  *)
(* the call record and leaves unchanged whatever the code had not yet      *)
(* assigned when it raised.                                                *)
(***************************************************************************)
EXTENDS Integers, Sequences, FiniteSets, TLC

\* ------------------------------------------------------------------ bounds
Places == 2              \* fractional decimal digits kept by a division
MaxTrades == 3           \* cap on len(trade_history)
MaxHeld == 4             \* cap on the quantity held in one symbol
MaxOrders == 2           \* number of orders of a multi-order run
MaxSingle == 1           \* number of orders of a single-order run

Unit == 10 ^ Places      \* one currency unit
Cent == Unit \div 100    \* Decimal("0.01")

\* ------------------------------------------------------------ input domains
Symbols == {"AAPL", "MSFT"}
BUY == "buy"
SELL == "sell"
OrderSide == {BUY, SELL}
FillQuantities == {1, 2}
FillPrices == {1 * Unit, 2 * Unit}
InitialCapitals == {5 * Unit}

None == << >>
Some(x) == << x >>

VARIABLES
    \* PortfolioSimulator
    initial_capital, cash, positions, high_water_mark, realized_pnl,
    trade_history, current_prices,
    pcall,               \* the last PortfolioSimulator call and its outcome
    \* PaperTradingEngine
    fill_model, slippage_bps, order_history, pending_orders,
    submitted,           \* ids of the orders handed to submit_order so far
    cancelled,           \* ids for which cancel_order returned True
    ecall,               \* the last PaperTradingEngine call and its outcome
    scall,               \* the last signal_to_order call and its outcome
    \* the drivers
    fwd,                 \* a ForwardTestRunner
    ref,                 \* a ForwardTestRunner that is never paused
    bt,                  \* a BacktestEngine.run call
    bt2,                 \* a second BacktestEngine.run call
    dcall,               \* the last driver call and its outcome
    \* StrategyActor
    actor,               \* a StrategyActor with the portfolio it owns
    acall                \* the last StrategyActor call and its outcome

pvars == << initial_capital, cash, positions, high_water_mark, realized_pnl,
            trade_history, current_prices, pcall >>
evars == << fill_model, slippage_bps, order_history, pending_orders,
            submitted, cancelled, ecall, scall >>
dvars == << fwd, ref, bt, bt2, dcall >>
avars == << actor, acall >>
vars == << pvars, evars, dvars, avars >>

\* --------------------------------------------------------- Decimal helpers
\* Decimal rounding ROUND_HALF_EVEN of n/d to an integer (d > 0).
RoundHalfEven(n, d) ==
    LET q == n \div d
        r == n % d
    IN  IF 2 * r < d THEN q
        ELSE IF 2 * r > d THEN q + 1
        ELSE IF q % 2 = 0 THEN q ELSE q + 1

\* Decimal division a / b of an amount by a whole number.
DecDiv(a, b) == RoundHalfEven(a, b)

\* x.quantize(Decimal("0.01")), x given as num/den units.
QuantizeCents(num, den) == RoundHalfEven(num, den * Cent) * Cent

RECURSIVE SumOver(_, _)
SumOver(S, f) ==
    IF S = {} THEN 0
    ELSE LET x == CHOOSE y \in S : TRUE
         IN  f[x] + SumOver(S \ {x}, f)

\* ======================================================= PortfolioSimulator
Position(symbol, quantity, entry_price, current_price, pos_realized) ==
    [ symbol |-> symbol, quantity |-> quantity, entry_price |-> entry_price,
      current_price |-> current_price, realized_pnl |-> pos_realized ]

\* Position.unrealized_pnl
PositionUnrealizedPnl(pos) == (pos.current_price - pos.entry_price) * pos.quantity

Trade(symbol, side, quantity, entry_price, exit_price, pnl, is_closed) ==
    [ symbol |-> symbol, side |-> side, quantity |-> quantity,
      entry_price |-> entry_price, exit_price |-> exit_price, pnl |-> pnl,
      is_closed |-> is_closed ]

PCall(op, symbol, side, quantity, price, status) ==
    [ op |-> op, symbol |-> symbol, side |-> side, quantity |-> quantity,
      price |-> price, status |-> status ]

\* PortfolioSimulator._get_position_value
get_position_value(prices, symbol, position) ==
    LET current_price == IF symbol \in DOMAIN prices THEN prices[symbol]
                         ELSE position.current_price
    IN  current_price * position.quantity

\* PortfolioSimulator.total_value, as a function of the fields it reads
TotalValueOf(c, poss, prices) ==
    c + SumOver(DOMAIN poss,
                [s \in DOMAIN poss |-> get_position_value(prices, s, poss[s])])

total_value == TotalValueOf(cash, positions, current_prices)

\* PortfolioSimulator.unrealized_pnl
UnrealizedPnlOf(poss) ==
    SumOver(DOMAIN poss, [s \in DOMAIN poss |-> PositionUnrealizedPnl(poss[s])])

unrealized_pnl == UnrealizedPnlOf(positions)

\* dict assignment d[k] = v
DictSet(d, k, v) == [x \in (DOMAIN d) \cup {k} |-> IF x = k THEN v ELSE d[x]]
\* del d[k]
DictDel(d, k) == [x \in (DOMAIN d) \ {k} |-> d[x]]

\* an average that ignores the quantities of the two lots
AvgPriceUnweighted(existing, quantity, price) ==
    DecDiv(existing.entry_price + price, 2)

\* avg_price of _open_or_add_position
AvgPrice(existing, quantity, price) ==
    DecDiv((existing.entry_price * existing.quantity) + (price * quantity),
           existing.quantity + quantity)

\* a buy that leaves the price table at the mark it had
open_or_add_position_keeps_mark(symbol, quantity, price) ==
    LET cost == quantity * price
    IN  /\ cash' = cash - cost
        /\ UNCHANGED current_prices
        /\ IF symbol \in DOMAIN positions
           THEN LET existing == positions[symbol]
                    total_qty == existing.quantity + quantity
                    avg_price == AvgPrice(existing, quantity, price)
                IN  positions' = DictSet(positions, symbol,
                        Position(symbol, total_qty, avg_price, price,
                                 existing.realized_pnl))
           ELSE positions' = DictSet(positions, symbol,
                        Position(symbol, quantity, price, price, 0))
        /\ trade_history' = Append(trade_history,
                Trade(symbol, BUY, quantity, price, None, 0, FALSE))
        /\ pcall' = PCall("execute_fill", symbol, BUY, quantity, price, "ok")
        /\ UNCHANGED << initial_capital, high_water_mark, realized_pnl >>

\* PortfolioSimulator._open_or_add_position
open_or_add_position(symbol, quantity, price) ==
    LET cost == quantity * price
    IN  /\ cash' = cash - cost
        /\ current_prices' = DictSet(current_prices, symbol, price)
        /\ IF symbol \in DOMAIN positions
           THEN LET existing == positions[symbol]
                    total_qty == existing.quantity + quantity
                    avg_price == AvgPrice(existing, quantity, price)
                IN  positions' = DictSet(positions, symbol,
                        Position(symbol, total_qty, avg_price, price,
                                 existing.realized_pnl))
           ELSE positions' = DictSet(positions, symbol,
                        Position(symbol, quantity, price, price, 0))
        /\ trade_history' = Append(trade_history,
                Trade(symbol, BUY, quantity, price, None, 0, FALSE))
        /\ pcall' = PCall("execute_fill", symbol, BUY, quantity, price, "ok")
        /\ UNCHANGED << initial_capital, high_water_mark, realized_pnl >>

\* a validation that forgets the quantity check
SellRaisesNoQuantityCheck(symbol, quantity) ==
    symbol \notin DOMAIN positions

\* the two validation checks of _close_or_reduce_position
SellRaises(symbol, quantity) ==
    \/ symbol \notin DOMAIN positions
    \/ quantity > positions[symbol].quantity

\* pnl of _close_or_reduce_position
SellPnl(position, quantity, price) == (price - position.entry_price) * quantity

\* an update that keeps a position whose quantity reached zero
PositionsAfterSellKeepsEmpty(symbol, position, quantity, price, pnl) ==
    DictSet(positions, symbol,
            Position(symbol, position.quantity - quantity, position.entry_price,
                     price, position.realized_pnl + pnl))

\* "Update or remove position" of _close_or_reduce_position
PositionsAfterSell(symbol, position, quantity, price, pnl) ==
    LET remaining == position.quantity - quantity
    IN  IF remaining = 0
        THEN DictDel(positions, symbol)
        ELSE DictSet(positions, symbol,
                Position(symbol, remaining, position.entry_price, price,
                         position.realized_pnl + pnl))

\* PortfolioSimulator._close_or_reduce_position
close_or_reduce_position(symbol, quantity, price) ==
    IF SellRaises(symbol, quantity)
    THEN /\ pcall' = PCall("execute_fill", symbol, SELL, quantity, price,
                           "ValueError")
         /\ UNCHANGED << initial_capital, cash, positions, high_water_mark,
                         realized_pnl, trade_history, current_prices >>
    ELSE LET position == positions[symbol]
             pnl == SellPnl(position, quantity, price)
         IN  /\ realized_pnl' = realized_pnl + pnl
             /\ cash' = cash + quantity * price
             /\ current_prices' = DictSet(current_prices, symbol, price)
             /\ positions' = PositionsAfterSell(symbol, position, quantity,
                                                price, pnl)
             /\ trade_history' = Append(trade_history,
                    Trade(symbol, SELL, quantity, position.entry_price,
                          Some(price), pnl, TRUE))
             /\ pcall' = PCall("execute_fill", symbol, SELL, quantity, price,
                               "ok")
             /\ UNCHANGED << initial_capital, high_water_mark >>

Held(symbol) ==
    IF symbol \in DOMAIN positions THEN positions[symbol].quantity ELSE 0

\* PortfolioSimulator.execute_fill
execute_fill(symbol, side, quantity, price) ==
    /\ Len(trade_history) < MaxTrades
    /\ IF side = BUY
       THEN /\ Held(symbol) + quantity <= MaxHeld
            /\ open_or_add_position(symbol, quantity, price)
       ELSE close_or_reduce_position(symbol, quantity, price)
    /\ UNCHANGED << evars, dvars, avars >>

\* an update that refreshes the price table and forgets the position record
update_price_table_only(symbol, price) ==
    /\ current_prices' = DictSet(current_prices, symbol, price)
    /\ pcall' = PCall("update_price", symbol, "", 0, price, "ok")
    /\ UNCHANGED << initial_capital, cash, positions, high_water_mark,
                    realized_pnl, trade_history >>
    /\ UNCHANGED << evars, dvars, avars >>

\* PortfolioSimulator.update_price
update_price(symbol, price) ==
    /\ current_prices' = DictSet(current_prices, symbol, price)
    /\ IF symbol \in DOMAIN positions
       THEN LET pos == positions[symbol]
            IN  positions' = DictSet(positions, symbol,
                    Position(pos.symbol, pos.quantity, pos.entry_price, price,
                             pos.realized_pnl))
       ELSE UNCHANGED positions
    /\ pcall' = PCall("update_price", symbol, "", 0, price, "ok")
    /\ UNCHANGED << initial_capital, cash, high_water_mark, realized_pnl,
                    trade_history >>
    /\ UNCHANGED << evars, dvars, avars >>

\* an update that overwrites the mark with the current value
update_high_water_mark_always ==
    /\ high_water_mark' = total_value
    /\ pcall' = PCall("update_high_water_mark", "", "", 0, 0, "ok")
    /\ UNCHANGED << initial_capital, cash, positions, realized_pnl,
                    trade_history, current_prices >>
    /\ UNCHANGED << evars, dvars, avars >>

\* PortfolioSimulator.update_high_water_mark
update_high_water_mark ==
    /\ LET current == total_value
       IN  IF current > high_water_mark
           THEN high_water_mark' = current
           ELSE UNCHANGED high_water_mark
    /\ pcall' = PCall("update_high_water_mark", "", "", 0, 0, "ok")
    /\ UNCHANGED << initial_capital, cash, positions, realized_pnl,
                    trade_history, current_prices >>
    /\ UNCHANGED << evars, dvars, avars >>

\* max_drawdown_pct handed to the constructor, in units of Decimal("0.0001")
MaxDrawdownPct == 2000

\* PortfolioSimulator.drawdown as a function of the fields it reads, in units
\* of Decimal("0.0001"): the quotient, quantized half-even to four places
DrawdownOf(hwm, value) ==
    IF hwm = 0 THEN 0
    ELSE RoundHalfEven((hwm - value) * 10000, hwm)

drawdown == DrawdownOf(high_water_mark, total_value)

\* a breach test that also fires at the limit
is_drawdown_breached_inclusive == drawdown >= MaxDrawdownPct

\* PortfolioSimulator.is_drawdown_breached
is_drawdown_breached == drawdown > MaxDrawdownPct

\* max_position_size_pct handed to the constructor, in units of Decimal("0.01")
MaxPositionSizePct == 50

\* PortfolioSimulator.calculate_max_position_size: the quotient
\* total_value * max_position_size_pct / price, then quantize(Decimal("1")),
\* which rounds half-even
calculate_max_position_size(symbol, price) ==
    RoundHalfEven(total_value * MaxPositionSizePct, 100 * price)

\* PortfolioSimulator.__init__
PortfolioNew(capital) ==
    /\ initial_capital = capital
    /\ cash = initial_capital
    /\ positions = << >>
    /\ high_water_mark = initial_capital
    /\ realized_pnl = 0
    /\ trade_history = << >>
    /\ current_prices = << >>
    /\ pcall = PCall("init", "", "", 0, 0, "ok")

\* ======================================================= PaperTradingEngine
MARKET == "market"
LIMIT == "limit"
STOP_LOSS == "stop_loss"
TAKE_PROFIT == "take_profit"
OrderType == {MARKET, LIMIT, STOP_LOSS, TAKE_PROFIT}
OrderIds == 1 .. MaxOrders
EnginePrices == {1 * Unit, 100 * Unit}
MidPrice == 50 * Unit
SlippageBps == {10, 50}
FillModels == {"instant", "realistic"}

Order(id, symbol, side, order_type, quantity, price) ==
    [ id |-> id, symbol |-> symbol, side |-> side, order_type |-> order_type,
      quantity |-> quantity, price |-> price ]

\* The orders a caller may build (price is Optional).  MARKET and LIMIT orders
\* carry no price: the engine never reads it for them.
Orders ==
    { Order(id, symbol, side, order_type, quantity, price) :
        id \in 1 .. MaxSingle, symbol \in Symbols, side \in OrderSide,
        order_type \in {STOP_LOSS, TAKE_PROFIT}, quantity \in FillQuantities,
        price \in {None} \cup { Some(p) : p \in EnginePrices } }
    \cup
    { Order(id, symbol, side, order_type, quantity, None) :
        id \in 1 .. MaxSingle, symbol \in Symbols, side \in OrderSide,
        order_type \in {MARKET, LIMIT}, quantity \in FillQuantities }

\* The orders of the multi-order runs: conditional orders with a trigger price
\* between the two market prices, and market orders; order k asks for k units.
FlowOrders ==
    { Order(id, symbol, side, order_type, id, Some(MidPrice)) :
        id \in OrderIds, symbol \in Symbols, side \in OrderSide,
        order_type \in {STOP_LOSS, TAKE_PROFIT} }
    \cup
    { Order(id, symbol, side, MARKET, id, None) :
        id \in OrderIds, symbol \in Symbols, side \in OrderSide }

\* the dicts symbol -> price a caller may pass to check_pending_orders
PriceDicts ==
    UNION { [S -> EnginePrices] : S \in SUBSET Symbols }

FillResult(order_id, status, fill_price, fill_quantity) ==
    [ order_id |-> order_id, status |-> status, fill_price |-> fill_price,
      fill_quantity |-> fill_quantity ]

ECall(op, order, price, prices, order_id, ret_fill, ret_fills, ret_bool, raised) ==
    [ op |-> op, order |-> order, price |-> price, prices |-> prices,
      order_id |-> order_id, ret_fill |-> ret_fill, ret_fills |-> ret_fills,
      ret_bool |-> ret_bool, raised |-> raised ]

\* a trigger test whose sell stop fires only strictly below the stop price
is_conditional_triggered_strict(order, current_price) ==
    LET stop_price == order.price
    IN  IF stop_price = None THEN FALSE
        ELSE IF order.order_type = STOP_LOSS
             THEN IF order.side = SELL
                  THEN current_price < stop_price[1]
                  ELSE current_price >= stop_price[1]
        ELSE IF order.order_type = TAKE_PROFIT
             THEN IF order.side = SELL
                  THEN current_price >= stop_price[1]
                  ELSE current_price <= stop_price[1]
        ELSE FALSE

\* PaperTradingEngine._is_conditional_triggered
is_conditional_triggered(order, current_price) ==
    LET stop_price == order.price
    IN  IF stop_price = None THEN FALSE
        ELSE IF order.order_type = STOP_LOSS
             THEN IF order.side = SELL
                  THEN current_price <= stop_price[1]
                  ELSE current_price >= stop_price[1]
        ELSE IF order.order_type = TAKE_PROFIT
             THEN IF order.side = SELL
                  THEN current_price >= stop_price[1]
                  ELSE current_price <= stop_price[1]
        ELSE FALSE

\* a fill price whose slippage favours the taker
FillPriceFavorable(bps, side, current_price) ==
    IF side = BUY
    THEN QuantizeCents(current_price * (10000 - bps), 10000)
    ELSE QuantizeCents(current_price * (10000 + bps), 10000)

\* fill_price of _instant_fill: slippage, then quantize to 0.01
FillPrice(bps, side, current_price) ==
    IF side = BUY
    THEN QuantizeCents(current_price * (10000 + bps), 10000)
    ELSE QuantizeCents(current_price * (10000 - bps), 10000)

\* the FillResult built by _instant_fill
InstantFillResult(bps, order, current_price) ==
    FillResult(order.id, "filled",
               Some(FillPrice(bps, order.side, current_price)),
               Some(order.quantity))

\* PaperTradingEngine._instant_fill: the result and the history it leaves
instant_fill(history, bps, order, current_price) ==
    LET result == InstantFillResult(bps, order, current_price)
    IN  [ result |-> result,
          order_history |-> Append(history, << order, result >>) ]

\* a loop body that keeps a triggered order in still_pending after filling it
CheckStepKeepsTriggered(order, prices, bps, st) ==
    IF order.symbol \notin DOMAIN prices
    THEN [ st EXCEPT !.still_pending = Append(@, order) ]
    ELSE IF is_conditional_triggered(order, prices[order.symbol])
    THEN LET f == instant_fill(st.order_history, bps, order,
                               prices[order.symbol])
         IN  [ st EXCEPT !.order_history = f.order_history,
                         !.triggered_results = Append(@, f.result),
                         !.still_pending = Append(@, order) ]
    ELSE [ st EXCEPT !.still_pending = Append(@, order) ]

\* a loop body that puts a surviving order at the front of still_pending
CheckStepReversesPending(order, prices, bps, st) ==
    IF order.symbol \notin DOMAIN prices
    THEN [ st EXCEPT !.still_pending = << order >> \o @ ]
    ELSE IF is_conditional_triggered(order, prices[order.symbol])
    THEN LET f == instant_fill(st.order_history, bps, order,
                               prices[order.symbol])
         IN  [ st EXCEPT !.order_history = f.order_history,
                         !.triggered_results = Append(@, f.result) ]
    ELSE [ st EXCEPT !.still_pending = << order >> \o @ ]

\* the body of the loop of check_pending_orders, for one pending order;
\* st holds order_history, still_pending and triggered_results
CheckStep(order, prices, bps, st) ==
    IF order.symbol \notin DOMAIN prices
    THEN [ st EXCEPT !.still_pending = Append(@, order) ]
    ELSE IF is_conditional_triggered(order, prices[order.symbol])
    THEN LET f == instant_fill(st.order_history, bps, order,
                               prices[order.symbol])
         IN  [ st EXCEPT !.order_history = f.order_history,
                         !.triggered_results = Append(@, f.result) ]
    ELSE [ st EXCEPT !.still_pending = Append(@, order) ]

\* the loop of check_pending_orders over self._pending_orders[i..]
RECURSIVE CheckLoop(_, _, _, _, _)
CheckLoop(pending, i, prices, bps, st) ==
    IF i > Len(pending) THEN st
    ELSE CheckLoop(pending, i + 1, prices, bps,
                   CheckStep(pending[i], prices, bps, st))

\* a handler that queues an untriggered order at the front of the pending list
handle_conditional_order_front(order, current_price) ==
    IF is_conditional_triggered(order, current_price)
    THEN LET f == instant_fill(order_history, slippage_bps, order, current_price)
         IN  /\ order_history' = f.order_history
             /\ ecall' = ECall("submit_order", Some(order), Some(current_price),
                               << >>, 0, Some(f.result), << >>, None, "")
             /\ UNCHANGED pending_orders
    ELSE /\ pending_orders' = << order >> \o pending_orders
         /\ ecall' = ECall("submit_order", Some(order), Some(current_price),
                           << >>, 0,
                           Some(FillResult(order.id, "pending", None, None)),
                           << >>, None, "")
         /\ UNCHANGED order_history

\* PaperTradingEngine._handle_conditional_order
handle_conditional_order(order, current_price) ==
    IF is_conditional_triggered(order, current_price)
    THEN LET f == instant_fill(order_history, slippage_bps, order, current_price)
         IN  /\ order_history' = f.order_history
             /\ ecall' = ECall("submit_order", Some(order), Some(current_price),
                               << >>, 0, Some(f.result), << >>, None, "")
             /\ UNCHANGED pending_orders
    ELSE /\ pending_orders' = Append(pending_orders, order)
         /\ ecall' = ECall("submit_order", Some(order), Some(current_price),
                           << >>, 0,
                           Some(FillResult(order.id, "pending", None, None)),
                           << >>, None, "")
         /\ UNCHANGED order_history

\* the branch of submit_order that routes an order to the conditional handler
IsConditional(order) == order.order_type \in {STOP_LOSS, TAKE_PROFIT}

\* PaperTradingEngine.submit_order
submit_order(order, current_price) ==
    /\ order.id = Cardinality(submitted) + 1   \* ids are handed out in order
    /\ submitted' = submitted \cup {order.id}
    /\ IF IsConditional(order)
       THEN handle_conditional_order(order, current_price)
       ELSE IF fill_model = "instant"
       THEN LET f == instant_fill(order_history, slippage_bps, order,
                                  current_price)
            IN  /\ order_history' = f.order_history
                /\ ecall' = ECall("submit_order", Some(order),
                                  Some(current_price), << >>, 0,
                                  Some(f.result), << >>, None, "")
                /\ UNCHANGED pending_orders
       ELSE /\ ecall' = ECall("submit_order", Some(order), Some(current_price),
                              << >>, 0, None, << >>, None, "ValueError")
            /\ UNCHANGED << order_history, pending_orders >>
    /\ UNCHANGED << fill_model, slippage_bps, cancelled, scall >>
    /\ UNCHANGED << pvars, dvars, avars >>

\* PaperTradingEngine.check_pending_orders
check_pending_orders(prices) ==
    /\ LET r == CheckLoop(pending_orders, 1, prices, slippage_bps,
                          [ order_history |-> order_history,
                            still_pending |-> << >>,
                            triggered_results |-> << >> ])
       IN  /\ pending_orders' = r.still_pending
           /\ order_history' = r.order_history
           /\ ecall' = ECall("check_pending_orders", None, None, prices, 0,
                             None, r.triggered_results, None, "")
    /\ UNCHANGED << fill_model, slippage_bps, submitted, cancelled, scall >>
    /\ UNCHANGED << pvars, dvars, avars >>

\* index of the first pending order with this id, 0 when there is none
FirstPendingIndex(pending, order_id) ==
    IF \E i \in 1 .. Len(pending) : pending[i].id = order_id
    THEN CHOOSE i \in 1 .. Len(pending) :
            /\ pending[i].id = order_id
            /\ \A j \in 1 .. (i - 1) : pending[j].id # order_id
    ELSE 0

\* a pop that removes the last element whatever the index
PopLast(seq, i) == SubSeq(seq, 1, Len(seq) - 1)

\* list.pop(i)
Pop(seq, i) == SubSeq(seq, 1, i - 1) \o SubSeq(seq, i + 1, Len(seq))

\* PaperTradingEngine.cancel_order
cancel_order(order_id) ==
    /\ LET i == FirstPendingIndex(pending_orders, order_id)
       IN  IF i # 0
           THEN /\ pending_orders' = Pop(pending_orders, i)
                /\ cancelled' = cancelled \cup {order_id}
                /\ ecall' = ECall("cancel_order", None, None, << >>, order_id,
                                  None, << >>, Some(TRUE), "")
           ELSE /\ ecall' = ECall("cancel_order", None, None, << >>, order_id,
                                  None, << >>, Some(FALSE), "")
                /\ UNCHANGED << pending_orders, cancelled >>
    /\ UNCHANGED << fill_model, slippage_bps, order_history, submitted,
                    scall >>
    /\ UNCHANGED << pvars, dvars, avars >>

\* a signal_to_order call: its arguments, the Order it returned (Optional)
\* and the exception it raised ("" when none)
SCall(signal, quantity, order_type, price, ret, raised) ==
    [ signal |-> signal, quantity |-> quantity, order_type |-> order_type,
      price |-> price, ret |-> ret, raised |-> raised ]

\* no signal_to_order call yet
NoSCall == SCall(None, 0, "", None, None, "")

\* PaperTradingEngine.__init__
EngineNew(model, bps) ==
    /\ fill_model = model
    /\ slippage_bps = bps
    /\ order_history = << >>
    /\ pending_orders = << >>
    /\ submitted = {}
    /\ cancelled = {}
    /\ ecall = ECall("init", None, None, << >>, 0, None, << >>, None, "")
    /\ scall = NoSCall

\* ================================================ backtest / forward drivers
MaxBars == 3             \* number of bars handed to a driver

LONG == "long"
SHORT == "short"
NEUTRAL == "neutral"
SignalDirection == {LONG, SHORT, NEUTRAL}
\* what Strategy.generate_signal may return: a Signal or None
Signals == {None} \cup { Some(d) : d \in SignalDirection }

BarCloses == {100 * Unit, 200 * Unit}
\* an OHLCV bar, by the two fields the drivers read
Bars == { [ symbol |-> s, close |-> c ] : s \in Symbols, c \in BarCloses }

PctScale == 100          \* position_size_pct is held in units of Decimal("0.01")
\* BacktestConfig / the arguments of ForwardTestRunner
DriverConfigs ==
    { [ initial_capital |-> 500 * Unit, position_size_pct |-> 50,
        slippage_bps |-> 0, commission_per_trade |-> 0 ],
      [ initial_capital |-> 500 * Unit, position_size_pct |-> 50,
        slippage_bps |-> 50, commission_per_trade |-> 0 ],
      [ initial_capital |-> 500 * Unit, position_size_pct |-> 100,
        slippage_bps |-> 50, commission_per_trade |-> 0 ] }

Clock == {0, 1}          \* readings of datetime.now()

\* int(num / den): truncation toward zero (den > 0)
IntOf(num, den) ==
    IF num >= 0 THEN num \div den ELSE -((-num) \div den)

\* ---- the simulators of a driver, as values
\* PortfolioSimulator.__init__
PortfolioOf(capital) ==
    [ initial_capital |-> capital, cash |-> capital, positions |-> << >>,
      high_water_mark |-> capital, realized_pnl |-> 0,
      trade_history |-> << >>, current_prices |-> << >> ]

\* PortfolioSimulator.update_price on a portfolio value
UpdatePriceOf(pf, symbol, price) ==
    [ pf EXCEPT
        !.current_prices = DictSet(@, symbol, price),
        !.positions =
            IF symbol \in DOMAIN @
            THEN DictSet(@, symbol,
                    Position(@[symbol].symbol, @[symbol].quantity,
                             @[symbol].entry_price, price,
                             @[symbol].realized_pnl))
            ELSE @ ]

\* PortfolioSimulator._open_or_add_position on a portfolio value
OpenOrAddOf(pf, symbol, quantity, price) ==
    [ pf EXCEPT
        !.cash = @ - quantity * price,
        !.current_prices = DictSet(@, symbol, price),
        !.positions =
            IF symbol \in DOMAIN @
            THEN DictSet(@, symbol,
                    Position(symbol, @[symbol].quantity + quantity,
                             AvgPrice(@[symbol], quantity, price), price,
                             @[symbol].realized_pnl))
            ELSE DictSet(@, symbol, Position(symbol, quantity, price, price, 0)),
        !.trade_history =
            Append(@, Trade(symbol, BUY, quantity, price, None, 0, FALSE)) ]

\* PortfolioSimulator._close_or_reduce_position on a portfolio value, for a
\* sell that passes the two validation checks
CloseOrReduceOf(pf, symbol, quantity, price) ==
    LET position == pf.positions[symbol]
        pnl == SellPnl(position, quantity, price)
        remaining == position.quantity - quantity
    IN  [ pf EXCEPT
            !.realized_pnl = @ + pnl,
            !.cash = @ + quantity * price,
            !.current_prices = DictSet(@, symbol, price),
            !.positions =
                IF remaining = 0 THEN DictDel(@, symbol)
                ELSE DictSet(@, symbol,
                        Position(symbol, remaining, position.entry_price,
                                 price, position.realized_pnl + pnl)),
            !.trade_history =
                Append(@, Trade(symbol, SELL, quantity, position.entry_price,
                                Some(price), pnl, TRUE)) ]

\* PortfolioSimulator.execute_fill on a portfolio value: the portfolio it
\* leaves and whether it raised ValueError
ExecuteFillOf(pf, symbol, side, quantity, price) ==
    IF side = BUY
    THEN [ portfolio |-> OpenOrAddOf(pf, symbol, quantity, price),
           raised |-> FALSE ]
    ELSE IF \/ symbol \notin DOMAIN pf.positions
            \/ quantity > pf.positions[symbol].quantity
    THEN [ portfolio |-> pf, raised |-> TRUE ]
    ELSE [ portfolio |-> CloseOrReduceOf(pf, symbol, quantity, price),
           raised |-> FALSE ]

\* PaperTradingEngine(fill_model="instant", slippage_bps=bps); fill_times are
\* the timestamps of the FillResults of order_history
EngineOf(bps) ==
    [ slippage_bps |-> bps, order_history |-> << >>,
      pending_orders |-> << >>, fill_times |-> << >> ]

\* the engine and the result that a call of _instant_fill at time now leaves
FilledAt(eng, f, now) ==
    [ engine |-> [ eng EXCEPT !.order_history = f.order_history,
                              !.fill_times = Append(@, now) ],
      result |-> f.result ]

\* a submit whose fill price moves with the wall clock
SubmitOrderClocked(eng, order, current_price, now) ==
    FilledAt(eng,
             instant_fill(eng.order_history, eng.slippage_bps, order,
                          current_price + now * Cent),
             now)

\* PaperTradingEngine.submit_order on an engine value with the instant fill
\* model, at wall-clock time now: the engine it leaves and the FillResult
SubmitOrderOf(eng, order, current_price, now) ==
    IF IsConditional(order) /\ ~is_conditional_triggered(order, current_price)
    THEN [ engine |-> [ eng EXCEPT !.pending_orders = Append(@, order) ],
           result |-> FillResult(order.id, "pending", None, None) ]
    ELSE FilledAt(eng,
                  instant_fill(eng.order_history, eng.slippage_bps, order,
                               current_price),
                  now)

\* what check_pending_orders leaves, r being the outcome of its loop
CheckedAt(eng, r, now) ==
    [ engine |->
        [ eng EXCEPT
            !.pending_orders = r.still_pending,
            !.order_history = r.order_history,
            !.fill_times =
                @ \o [ i \in 1 .. Len(r.triggered_results) |-> now ] ],
      fills |-> r.triggered_results ]

\* PaperTradingEngine.check_pending_orders on an engine value
CheckPendingOf(eng, prices, now) ==
    CheckedAt(eng,
              CheckLoop(eng.pending_orders, 1, prices, eng.slippage_bps,
                        [ order_history |-> eng.order_history,
                          still_pending |-> << >>,
                          triggered_results |-> << >> ]),
              now)

\* index of the first entry of the history whose order has this id, 0 when
\* there is none
FirstHistoryIndex(history, order_id) ==
    IF \E i \in 1 .. Len(history) : history[i][1].id = order_id
    THEN CHOOSE k \in 1 .. Len(history) :
            /\ history[k][1].id = order_id
            /\ \A j \in 1 .. (k - 1) : history[j][1].id # order_id
    ELSE 0

\* the Optional side found at index i
SideAt(history, i) == IF i = 0 THEN None ELSE Some(history[i][1].side)

\* _find_order_side
find_order_side(history, order_id) ==
    SideAt(history, FirstHistoryIndex(history, order_id))

\* a TradeLogEntry, without its timestamp and commission
TradeLogEntry(symbol, side, quantity, price) ==
    [ symbol |-> symbol, side |-> side, quantity |-> quantity,
      price |-> price ]

\* the effect on st of one applied pending fill, ex being the outcome of
\* execute_fill
PendingFillApplied(st, ex, entry) ==
    IF ex.raised
    THEN [ st EXCEPT !.raised = TRUE ]
    ELSE [ st EXCEPT !.portfolio = ex.portfolio,
                     !.trades = @ + 1,
                     !.log = Append(@, entry) ]

\* the body of the loop "for fill_result in pending_fills" of both drivers
ApplyPendingFill(fill_result, order_side, symbol, st) ==
    IF /\ fill_result.status = "filled"
       /\ fill_result.fill_price # None
       /\ order_side # None
       /\ fill_result.fill_quantity # None
    THEN PendingFillApplied(st,
            ExecuteFillOf(st.portfolio, symbol, order_side[1],
                          fill_result.fill_quantity[1],
                          fill_result.fill_price[1]),
            TradeLogEntry(symbol, order_side[1], fill_result.fill_quantity[1],
                          fill_result.fill_price[1]))
    ELSE st

\* the loop "for fill_result in pending_fills" over fills[i..]; st holds the
\* portfolio, the number of fills applied, their trade-log entries and
\* whether execute_fill raised, which ends the loop
RECURSIVE ApplyPendingFills(_, _, _, _, _)
ApplyPendingFills(fills, i, symbol, history, st) ==
    IF i > Len(fills) \/ st.raised THEN st
    ELSE ApplyPendingFills(fills, i + 1, symbol, history,
            ApplyPendingFill(fills[i],
                             find_order_side(history, fills[i].order_id),
                             symbol, st))

\* the pending fills of a bar, applied to a fresh loop state
PendingApplied(pf, chk, symbol) ==
    ApplyPendingFills(chk.fills, 1, symbol, chk.engine.order_history,
                      [ portfolio |-> pf, trades |-> 0, log |-> << >>,
                        raised |-> FALSE ])

\* ---- ForwardTestRunner
\* ForwardTestRunner.__init__; strategy_bars counts the bars handed to
\* strategy.on_data
ForwardNew(cfg) ==
    [ portfolio |-> PortfolioOf(cfg.initial_capital),
      engine |-> EngineOf(cfg.slippage_bps),
      position_size_pct |-> cfg.position_size_pct,
      bar_count |-> 0, total_trades |-> 0, equity_curve |-> << >>,
      paused |-> FALSE, strategy_bars |-> 0 ]

\* the head of on_bar: count the bar, feed the strategy, mark the price
ForwardMark(r, bar) ==
    [ r EXCEPT !.bar_count = @ + 1,
               !.strategy_bars = @ + 1,
               !.portfolio = UpdatePriceOf(@, bar.symbol, bar.close) ]

\* what "Check pending orders" of on_bar leaves, chk being the outcome of
\* check_pending_orders and ap of the loop over its fills
ForwardPendingDone(r, chk, ap) ==
    [ runner |-> [ r EXCEPT !.engine = chk.engine,
                            !.portfolio = ap.portfolio,
                            !.total_trades = @ + ap.trades ],
      raised |-> ap.raised ]

ForwardPendingChecked(r, chk, bar) ==
    ForwardPendingDone(r, chk, PendingApplied(r.portfolio, chk, bar.symbol))

\* "Check pending orders" of on_bar: the runner it leaves and whether
\* execute_fill raised
ForwardPending(r, bar, now) ==
    ForwardPendingChecked(r,
        CheckPendingOf(r.engine, [ s \in {bar.symbol} |-> bar.close ], now),
        bar)

\* a forward sizing that rounds the quantity half-even
ForwardQuantityRounded(available, close, position_size_pct) ==
    IF available > 0 /\ close > 0
    THEN RoundHalfEven(available * position_size_pct, PctScale * close)
    ELSE 0

\* the quantity of on_bar: int(allocation / bar.close), 0 when the guard
\* "cash > 0 and bar.close > 0" fails
ForwardQuantity(available, close, position_size_pct) ==
    IF available > 0 /\ close > 0
    THEN IntOf(available * position_size_pct, PctScale * close)
    ELSE 0

\* on_bar after execute_fill, r1 being the runner after submit_order
ForwardFilled(r1, ex) ==
    IF ex.raised
    THEN [ runner |-> r1, raised |-> TRUE ]
    ELSE [ runner |-> [ r1 EXCEPT !.portfolio = ex.portfolio,
                                  !.total_trades = @ + 1 ],
           raised |-> FALSE ]

\* on_bar after submit_order returned sub
ForwardSubmitted(r, bar, side, sub) ==
    IF sub.result.status = "filled" /\ sub.result.fill_price # None
    THEN ForwardFilled([ r EXCEPT !.engine = sub.engine ],
                       ExecuteFillOf(r.portfolio, bar.symbol, side,
                                     sub.result.fill_quantity[1],
                                     sub.result.fill_price[1]))
    ELSE [ runner |-> [ r EXCEPT !.engine = sub.engine ], raised |-> FALSE ]

\* on_bar from "if quantity > 0"; the order id is fwd_{bar_count}
ForwardSized(r, bar, side, quantity, now) ==
    IF quantity > 0
    THEN ForwardSubmitted(r, bar, side,
            SubmitOrderOf(r.engine,
                          Order(r.bar_count, bar.symbol, side, MARKET,
                                quantity, Some(bar.close)),
                          bar.close, now))
    ELSE [ runner |-> r, raised |-> FALSE ]

\* "Execute if actionable" of on_bar: the runner it leaves and whether
\* execute_fill raised
ForwardExecute(r, bar, signal, now) ==
    IF signal # None /\ signal[1] # NEUTRAL
    THEN ForwardSized(r, bar, IF signal[1] = LONG THEN BUY ELSE SELL,
                      ForwardQuantity(r.portfolio.cash, bar.close,
                                      r.position_size_pct),
                      now)
    ELSE [ runner |-> r, raised |-> FALSE ]

\* "self._equity_curve.append(self._portfolio.total_value)"
ForwardRecord(r) ==
    [ r EXCEPT !.equity_curve =
        Append(@, TotalValueOf(r.portfolio.cash, r.portfolio.positions,
                               r.portfolio.current_prices)) ]

\* the tail of on_bar, x being the outcome of "Execute if actionable"
ForwardExecuted(x) ==
    IF x.raised THEN [ runner |-> x.runner, ret |-> "ValueError" ]
    ELSE [ runner |-> ForwardRecord(x.runner), ret |-> "True" ]

\* on_bar after "Check pending orders" left p
ForwardPended(p, bar, signal, now) ==
    IF p.raised THEN [ runner |-> p.runner, ret |-> "ValueError" ]
    ELSE ForwardExecuted(ForwardExecute(p.runner, bar, signal, now))

\* on_bar of a runner that is not paused
ForwardProcess(r, bar, signal, now) ==
    ForwardPended(ForwardPending(ForwardMark(r, bar), bar, now),
                  bar, signal, now)

\* an on_bar that counts the bar before it looks at the pause flag
on_bar_counts_paused(r, bar, signal, now) ==
    IF r.paused
    THEN [ runner |-> [ r EXCEPT !.bar_count = @ + 1 ], ret |-> "False" ]
    ELSE ForwardProcess(r, bar, signal, now)

\* ForwardTestRunner.on_bar at wall-clock time now, the strategy answering
\* signal: the runner it leaves, and what the call returned or raised
on_bar(r, bar, signal, now) ==
    IF r.paused THEN [ runner |-> r, ret |-> "False" ]
    ELSE ForwardProcess(r, bar, signal, now)

\* ---- BacktestEngine
\* the locals of BacktestEngine.run before its loop; status tells whether
\* the call is running, has returned its BacktestResult or has raised
BacktestNew(cfg) ==
    [ status |-> "running",
      portfolio |-> PortfolioOf(cfg.initial_capital),
      engine |-> EngineOf(cfg.slippage_bps),
      position_size_pct |-> cfg.position_size_pct,
      commission_per_trade |-> cfg.commission_per_trade,
      equity_curve |-> << >>, trade_log |-> << >>, total_trades |-> 0,
      order_counter |-> 0, strategy_bars |-> 0, result |-> None ]

\* a sizing that rounds the quantity half-even where the code truncates it
calculate_quantity_rounded(available, price, position_size_pct) ==
    IF price <= 0 THEN 0
    ELSE RoundHalfEven(available * position_size_pct, PctScale * price)

\* BacktestEngine._calculate_quantity
calculate_quantity(available, price, position_size_pct) ==
    IF price <= 0 THEN 0
    ELSE IntOf(available * position_size_pct, PctScale * price)

\* steps 1 and 2 of the loop of run: feed the strategy, mark the price
BacktestMark(b, bar) ==
    [ b EXCEPT !.strategy_bars = @ + 1,
               !.portfolio = UpdatePriceOf(@, bar.symbol, bar.close) ]

\* what step 3 leaves, chk being the outcome of check_pending_orders and ap
\* of the loop over its fills
BacktestPendingDone(b, chk, ap) ==
    [ run |-> [ b EXCEPT !.engine = chk.engine,
                         !.portfolio = ap.portfolio,
                         !.trade_log = @ \o ap.log,
                         !.total_trades = @ + ap.trades ],
      raised |-> ap.raised ]

BacktestPendingChecked(b, chk, bar) ==
    BacktestPendingDone(b, chk, PendingApplied(b.portfolio, chk, bar.symbol))

\* step 3 of the loop of run: the locals it leaves and whether execute_fill
\* raised
BacktestPending(b, bar, now) ==
    BacktestPendingChecked(b,
        CheckPendingOf(b.engine, [ s \in {bar.symbol} |-> bar.close ], now),
        bar)

\* step 5 after execute_fill, b1 being the locals after submit_order
BacktestFilled(b1, ex, entry) ==
    IF ex.raised
    THEN [ run |-> b1, raised |-> TRUE ]
    ELSE [ run |-> [ b1 EXCEPT !.portfolio = ex.portfolio,
                               !.trade_log = Append(@, entry),
                               !.total_trades = @ + 1 ],
           raised |-> FALSE ]

\* step 5 after submit_order returned sub
BacktestSubmitted(b, bar, side, sub) ==
    IF sub.result.status = "filled" /\ sub.result.fill_price # None
    THEN BacktestFilled([ b EXCEPT !.engine = sub.engine ],
                        ExecuteFillOf(b.portfolio, bar.symbol, side,
                                      sub.result.fill_quantity[1],
                                      sub.result.fill_price[1]),
                        TradeLogEntry(bar.symbol, side,
                                      sub.result.fill_quantity[1],
                                      sub.result.fill_price[1]))
    ELSE [ run |-> [ b EXCEPT !.engine = sub.engine ], raised |-> FALSE ]

\* step 5 from "if quantity > 0"; the order id is bt_{order_counter}
BacktestSized(b, bar, side, quantity, now) ==
    IF quantity > 0
    THEN BacktestSubmitted(b, bar, side,
            SubmitOrderOf(b.engine,
                          Order(b.order_counter, bar.symbol, side, MARKET,
                                quantity, Some(bar.close)),
                          bar.close, now))
    ELSE [ run |-> b, raised |-> FALSE ]

\* steps 4 and 5 of the loop of run
BacktestExecute(b, bar, signal, now) ==
    IF signal # None /\ signal[1] # NEUTRAL
    THEN BacktestSized([ b EXCEPT !.order_counter = @ + 1 ], bar,
                       IF signal[1] = LONG THEN BUY ELSE SELL,
                       calculate_quantity(b.portfolio.cash, bar.close,
                                          b.position_size_pct),
                       now)
    ELSE [ run |-> b, raised |-> FALSE ]

\* step 6 of the loop of run
BacktestRecord(b) ==
    [ b EXCEPT !.equity_curve =
        Append(@, TotalValueOf(b.portfolio.cash, b.portfolio.positions,
                               b.portfolio.current_prices)) ]

\* the end of an iteration, x being the outcome of steps 4 and 5; an
\* exception of execute_fill leaves the call, which is then over
BacktestExecuted(x) ==
    IF x.raised THEN [ x.run EXCEPT !.status = "raised" ]
    ELSE BacktestRecord(x.run)

\* an iteration after step 3 left p
BacktestPended(p, bar, signal, now) ==
    IF p.raised THEN [ p.run EXCEPT !.status = "raised" ]
    ELSE BacktestExecuted(BacktestExecute(p.run, bar, signal, now))

\* one iteration of the loop of BacktestEngine.run
BacktestBar(b, bar, signal, now) ==
    BacktestPended(BacktestPending(BacktestMark(b, bar), bar, now),
                   bar, signal, now)

\* float(x) of a Decimal that is a whole amount of currency: the same number
FloatOf(x) == x

\* a result that charges the commission once per bar
BacktestResultPerBar(b) ==
    [ initial_capital |-> b.portfolio.initial_capital,
      final_value |-> TotalValueOf(b.portfolio.cash, b.portfolio.positions,
                                   b.portfolio.current_prices),
      equity_curve |-> b.equity_curve,
      total_trades |-> b.total_trades,
      trade_log |-> b.trade_log,
      metrics |-> [ total_trades |-> b.total_trades,
                    total_commission |->
                        FloatOf(b.commission_per_trade * Len(b.equity_curve)) ] ]

\* the BacktestResult of run; of its metrics, the two that count the trades.
\* commission_per_trade is read here and nowhere in the loop.
BacktestResult(b) ==
    [ initial_capital |-> b.portfolio.initial_capital,
      final_value |-> TotalValueOf(b.portfolio.cash, b.portfolio.positions,
                                   b.portfolio.current_prices),
      equity_curve |-> b.equity_curve,
      total_trades |-> b.total_trades,
      trade_log |-> b.trade_log,
      metrics |-> [ total_trades |-> b.total_trades,
                    total_commission |->
                        FloatOf(b.commission_per_trade * b.total_trades) ] ]

\* the end of run, after the last bar
BacktestReturn(b) ==
    [ b EXCEPT !.status = "returned", !.result = Some(BacktestResult(b)) ]

\* ---- StrategyActor
\* the last StrategyActor call: its name, the initial_capital the constructor
\* was given, and the exception the call raised, if any
ACall(op, capital, raised) ==
    [ op |-> op, initial_capital |-> capital, raised |-> raised ]

\* StrategyActor.__init__ with the default limits
ActorNew(capital) ==
    /\ actor = [ portfolio |-> PortfolioOf(capital), data_buffer |-> << >>,
                 is_disabled |-> FALSE ]
    /\ acall = ACall("init", capital, "")

\* the bars handed to an actor
ActorBars == { [ symbol |-> "AAPL", close |-> c ] : c \in FillPrices }

\* PortfolioSimulator.is_drawdown_breached on a portfolio value
DrawdownBreachedOf(pf) ==
    DrawdownOf(pf.high_water_mark,
               TotalValueOf(pf.cash, pf.positions, pf.current_prices))
        > MaxDrawdownPct

\* StrategyActor.on_data
on_data(ohlcv) ==
    /\ Len(actor.data_buffer) < MaxBars
    /\ actor' =
         IF actor.is_disabled THEN actor
         ELSE IF DrawdownBreachedOf(actor.portfolio)
         THEN [ actor EXCEPT !.is_disabled = TRUE ]
         ELSE [ actor EXCEPT
                  !.data_buffer = Append(@, ohlcv),
                  !.portfolio = UpdatePriceOf(@, ohlcv.symbol, ohlcv.close) ]
    /\ acall' = ACall("on_data", acall.initial_capital, "")
    /\ UNCHANGED << pvars, evars, dvars >>

\* a fill booked on the portfolio of the actor: actor.portfolio.execute_fill
ActorFilled(ex) ==
    /\ actor' = [ actor EXCEPT !.portfolio = ex.portfolio ]
    /\ acall' = ACall("execute_fill", acall.initial_capital,
                      IF ex.raised THEN "ValueError" ELSE "")

ActorFill(symbol, side, quantity, price) ==
    /\ Len(actor.portfolio.trade_history) < MaxTrades
    /\ ActorFilled(ExecuteFillOf(actor.portfolio, symbol, side, quantity,
                                 price))
    /\ UNCHANGED << pvars, evars, dvars >>

\* StrategyActor.reset: the buffer and the flag are cleared, then the
\* arguments of the new PortfolioSimulator are evaluated; the portfolio has
\* max_drawdown_pct and max_position_size_pct but no _max_drawdown_pct, so
\* the read raises AttributeError and self.portfolio is never assigned
reset ==
    /\ actor' = [ actor EXCEPT !.data_buffer = << >>, !.is_disabled = FALSE ]
    /\ acall' = ACall("reset", acall.initial_capital, "AttributeError")
    /\ UNCHANGED << pvars, evars, dvars >>

\* ---- the driver calls
\* the last on_bar call or loop iteration: its bar, the signal the strategy
\* answered, what on_bar returned or raised in fwd and in ref, and the number
\* of such calls so far
DCall(op, bar, signal, ret, ref_ret, calls) ==
    [ op |-> op, bar |-> bar, signal |-> signal, ret |-> ret,
      ref_ret |-> ref_ret, calls |-> calls ]

\* the two constructors, called twice each with the same arguments
DriverNew(cfg) ==
    /\ fwd = ForwardNew(cfg)
    /\ ref = ForwardNew(cfg)
    /\ bt = BacktestNew(cfg)
    /\ bt2 = BacktestNew(cfg)
    /\ dcall = DCall("init", None, None, "", "", 0)

\* the defaults of the drivers
DefaultConfig ==
    [ initial_capital |-> 500 * Unit, position_size_pct |-> 10,
      slippage_bps |-> 0, commission_per_trade |-> 0 ]

\* The caller hands the next bar to fwd.on_bar.  The bars that fwd processes
\* are also handed, in the same order, to the runner ref, which is never
\* paused, and to the loop of a BacktestEngine.run call; the strategies of the
\* three are equivalent and answer the same signal.  f and g are the outcomes
\* of the two on_bar calls.  The wall clock ticks once per call.
Fed(f, g, bar, signal, now) ==
    /\ fwd' = f.runner
    /\ ref' = IF fwd.paused THEN ref ELSE g.runner
    /\ bt' = IF fwd.paused \/ bt.status # "running" THEN bt
             ELSE BacktestBar(bt, bar, signal, now)
    /\ dcall' = DCall("on_bar", Some(bar), signal, f.ret,
                      IF fwd.paused THEN "" ELSE g.ret, dcall.calls + 1)

Feed(bar, signal) ==
    /\ dcall.calls < MaxBars
    /\ Fed(on_bar(fwd, bar, signal, dcall.calls),
           on_bar(ref, bar, signal, dcall.calls), bar, signal, dcall.calls)
    /\ UNCHANGED bt2
    /\ UNCHANGED << pvars, evars, avars >>

\* ForwardTestRunner.pause
pause ==
    /\ fwd' = [ fwd EXCEPT !.paused = TRUE ]
    /\ UNCHANGED << ref, bt, bt2, dcall >>
    /\ UNCHANGED << pvars, evars, avars >>

\* ForwardTestRunner.resume
resume ==
    /\ fwd' = [ fwd EXCEPT !.paused = FALSE ]
    /\ UNCHANGED << ref, bt, bt2, dcall >>
    /\ UNCHANGED << pvars, evars, avars >>

\* the bar list of the BacktestEngine.run call ends here
Return ==
    /\ bt.status = "running"
    /\ bt' = BacktestReturn(bt)
    /\ UNCHANGED << fwd, ref, bt2, dcall >>
    /\ UNCHANGED << pvars, evars, avars >>

DriverInit ==
    \E cfg \in DriverConfigs :
        /\ DriverNew(cfg)
        /\ ActorNew(cfg.initial_capital)
        /\ PortfolioNew(cfg.initial_capital)
        /\ EngineNew("instant", cfg.slippage_bps)

DriverNext ==
    \/ \E bar \in Bars, signal \in Signals : Feed(bar, signal)
    \/ pause
    \/ resume
    \/ Return

DriverSpec == DriverInit /\ [][DriverNext]_vars

\* Two BacktestEngine.run calls replay the same bars with equivalent
\* strategies, each reading the wall clock on its own.
Replay(bar, signal, now, now2) ==
    /\ bt.status = "running"
    /\ bt2.status = "running"
    /\ bt.strategy_bars < MaxBars
    /\ bt' = BacktestBar(bt, bar, signal, now)
    /\ bt2' = BacktestBar(bt2, bar, signal, now2)
    /\ dcall' = DCall("run_bar", Some(bar), signal, "", "", dcall.calls + 1)
    /\ UNCHANGED << fwd, ref >>
    /\ UNCHANGED << pvars, evars, avars >>

\* the bar list of the two calls ends here
ReplayReturn ==
    /\ bt.status = "running"
    /\ bt2.status = "running"
    /\ bt' = BacktestReturn(bt)
    /\ bt2' = BacktestReturn(bt2)
    /\ UNCHANGED << fwd, ref, dcall >>
    /\ UNCHANGED << pvars, evars, avars >>

ReplayNext ==
    \/ \E bar \in Bars, signal \in Signals, now \in Clock, now2 \in Clock :
          Replay(bar, signal, now, now2)
    \/ ReplayReturn

ReplaySpec == DriverInit /\ [][ReplayNext]_vars

\* Two BacktestEngine.run calls replay the same bars with equivalent
\* strategies; the configuration of the first charges a commission per trade,
\* that of the second is the same but for a commission of zero.
Commissions == {10 * Unit}

CommissionNew(cfg, commission) ==
    /\ fwd = ForwardNew(cfg)
    /\ ref = ForwardNew(cfg)
    /\ bt = BacktestNew([ cfg EXCEPT !.commission_per_trade = commission ])
    /\ bt2 = BacktestNew([ cfg EXCEPT !.commission_per_trade = 0 ])
    /\ dcall = DCall("init", None, None, "", "", 0)

CommissionInit ==
    \E cfg \in DriverConfigs, commission \in Commissions :
        /\ CommissionNew(cfg, commission)
        /\ ActorNew(cfg.initial_capital)
        /\ PortfolioNew(cfg.initial_capital)
        /\ EngineNew("instant", cfg.slippage_bps)

CommissionSpec == CommissionInit /\ [][ReplayNext]_vars

\* ---- PaperTradingEngine.signal_to_order
\* a Signal, by the fields signal_to_order reads
Signal(timestamp, symbol, direction, strategy_id) ==
    [ timestamp |-> timestamp, symbol |-> symbol, direction |-> direction,
      strategy_id |-> strategy_id ]

SignalInputs ==
    { Signal(x[1], x[2], direction, x[3]) :
        x \in { << 1, "AAPL", "mom_1" >>, << 2, "MSFT", "mom_2" >> },
        direction \in SignalDirection }

\* the values uuid4().hex[:8] may take
Uuids == {"0a1b2c3d", "4e5f6071"}

\* the Order built by signal_to_order, with the fields it copies from the
\* signal
SignalOrder(id, timestamp, symbol, side, order_type, quantity, price, strategy_id) ==
    [ id |-> id, timestamp |-> timestamp, symbol |-> symbol, side |-> side,
      order_type |-> order_type, quantity |-> quantity, price |-> price,
      strategy_id |-> strategy_id ]

\* a conversion that has no check for NEUTRAL
signal_to_order_unchecked(signal, quantity, order_type, price, uuid) ==
    /\ scall' = SCall(Some(signal), quantity, order_type, price,
                      Some(SignalOrder(uuid, signal.timestamp, signal.symbol,
                                       IF signal.direction = LONG
                                       THEN BUY ELSE SELL,
                                       order_type, quantity, price,
                                       signal.strategy_id)),
                      "")
    /\ UNCHANGED << fill_model, slippage_bps, order_history, pending_orders,
                    submitted, cancelled, ecall >>
    /\ UNCHANGED << pvars, dvars, avars >>

\* PaperTradingEngine.signal_to_order, uuid being the generated part of the id
signal_to_order(signal, quantity, order_type, price, uuid) ==
    /\ scall' =
         IF signal.direction = NEUTRAL
         THEN SCall(Some(signal), quantity, order_type, price, None,
                    "ValueError")
         ELSE SCall(Some(signal), quantity, order_type, price,
                    Some(SignalOrder(uuid, signal.timestamp, signal.symbol,
                                     IF signal.direction = LONG
                                     THEN BUY ELSE SELL,
                                     order_type, quantity, price,
                                     signal.strategy_id)),
                    "")
    /\ UNCHANGED << fill_model, slippage_bps, order_history, pending_orders,
                    submitted, cancelled, ecall >>
    /\ UNCHANGED << pvars, dvars, avars >>

\* ============================================================ specifications
\* an engine of any configuration, beside a fresh portfolio
EngineInit ==
    \E model \in FillModels, bps \in SlippageBps, capital \in InitialCapitals :
        EngineNew(model, bps) /\ PortfolioNew(capital)
        /\ DriverNew(DefaultConfig)
        /\ ActorNew(capital)

\* single-order runs: every order shape, every engine configuration
EngineNext ==
    \/ \E order \in Orders, current_price \in EnginePrices :
          submit_order(order, current_price)
    \/ \E prices \in PriceDicts : check_pending_orders(prices)
    \/ \E order_id \in OrderIds : cancel_order(order_id)

EngineSpec == EngineInit /\ [][EngineNext]_vars

\* multi-order runs on an engine with the instant fill model
OrderFlowInit ==
    \E capital \in InitialCapitals :
        EngineNew("instant", 10) /\ PortfolioNew(capital)
        /\ DriverNew(DefaultConfig)
        /\ ActorNew(capital)

OrderFlowNext ==
    \/ \E order \in FlowOrders, current_price \in EnginePrices :
          submit_order(order, current_price)
    \/ \E prices \in PriceDicts : check_pending_orders(prices)
    \/ \E order_id \in OrderIds : cancel_order(order_id)

OrderFlowSpec == OrderFlowInit /\ [][OrderFlowNext]_vars

PortfolioNext ==
    \/ \E symbol \in Symbols, side \in OrderSide, quantity \in FillQuantities,
          price \in FillPrices : execute_fill(symbol, side, quantity, price)
    \/ \E symbol \in Symbols, price \in FillPrices : update_price(symbol, price)
    \/ update_high_water_mark

\* a fresh portfolio, beside an engine as its defaults construct it
PortfolioInit ==
    \E capital \in InitialCapitals :
        PortfolioNew(capital) /\ EngineNew("instant", 0)
        /\ DriverNew(DefaultConfig)
        /\ ActorNew(capital)

PortfolioSpec == PortfolioInit /\ [][PortfolioNext]_vars

\* an engine that has been handed at most MaxSingle orders converts signals
SignalInit ==
    \E capital \in InitialCapitals :
        EngineNew("instant", 10) /\ PortfolioNew(capital)
        /\ DriverNew(DefaultConfig)
        /\ ActorNew(capital)

SignalNext ==
    \/ \E signal \in SignalInputs, quantity \in FillQuantities,
          order_type \in {MARKET, STOP_LOSS},
          price \in {None, Some(MidPrice)},
          uuid \in Uuids :
          signal_to_order(signal, quantity, order_type, price, uuid)
    \/ \E order \in FlowOrders, current_price \in EnginePrices :
          order.id <= MaxSingle /\ submit_order(order, current_price)

SignalSpec == SignalInit /\ [][SignalNext]_vars

\* an actor is fed bars, has fills booked on its portfolio and is reset
ActorInit ==
    \E capital \in InitialCapitals :
        /\ PortfolioNew(capital)
        /\ EngineNew("instant", 0)
        /\ DriverNew(DefaultConfig)
        /\ ActorNew(capital)

ActorNext ==
    \/ \E ohlcv \in ActorBars : on_data(ohlcv)
    \/ \E side \in OrderSide, quantity \in FillQuantities,
          price \in FillPrices : ActorFill("AAPL", side, quantity, price)
    \/ reset

ActorSpec == ActorInit /\ [][ActorNext]_vars

\* ==================================================== claims: portfolio
\* The market value of the open positions, from the marks the portfolio holds.
PositionMarketValue ==
    SumOver(DOMAIN positions,
            [s \in DOMAIN positions |->
                positions[s].quantity * current_prices[s]])

\* C1: accounting identity - in every reachable state, cash plus the market
\* value of the open positions equals initial_capital + realized_pnl +
\* unrealized_pnl.
C1_AccountingIdentity ==
    cash + PositionMarketValue = initial_capital + realized_pnl + unrealized_pnl

\* C2: a SELL execute_fill for a symbol with no open position, or for more
\* than the held quantity, raises and leaves cash, positions, realized_pnl,
\* mark prices, trade_history (and the high-water mark) exactly as they were.
C2_RejectedSellLeavesPortfolioUnchanged ==
    [][ ( /\ pcall'.op = "execute_fill"
          /\ pcall'.side = SELL
          /\ \/ pcall'.symbol \notin DOMAIN positions
             \/ pcall'.quantity > positions[pcall'.symbol].quantity )
        => ( /\ pcall'.status = "ValueError"
             /\ cash' = cash
             /\ positions' = positions
             /\ realized_pnl' = realized_pnl
             /\ current_prices' = current_prices
             /\ trade_history' = trade_history
             /\ high_water_mark' = high_water_mark ) ]_vars

\* C2 witness: an over-sell of a held position has just been rejected.
C2_Witness ==
    /\ pcall.op = "execute_fill"
    /\ pcall.side = SELL
    /\ pcall.status = "ValueError"
    /\ pcall.symbol \in DOMAIN positions
    /\ pcall.quantity > positions[pcall.symbol].quantity
    /\ trade_history # << >>

\* C10: a successful SELL of q at p on a position (Q, entry) adds (p-entry)*q
\* to realized_pnl and q*p to cash, appends one closed trade record with the
\* entry price, the exit price and that pnl, and removes the symbol when
\* Q - q = 0, else keeps it with quantity Q - q and the same entry price.
C10_SuccessfulSellEffects ==
    [][ ( /\ pcall'.op = "execute_fill"
          /\ pcall'.side = SELL
          /\ pcall'.status = "ok" )
        => LET s == pcall'.symbol
               q == pcall'.quantity
               p == pcall'.price
           IN  /\ s \in DOMAIN positions
               /\ LET Q == positions[s].quantity
                      entry == positions[s].entry_price
                  IN  /\ realized_pnl' = realized_pnl + (p - entry) * q
                      /\ cash' = cash + q * p
                      /\ Len(trade_history') = Len(trade_history) + 1
                      /\ SubSeq(trade_history', 1, Len(trade_history))
                            = trade_history
                      /\ LET t == trade_history'[Len(trade_history')]
                         IN  /\ t.symbol = s /\ t.side = SELL
                             /\ t.quantity = q /\ t.is_closed
                             /\ t.entry_price = entry
                             /\ t.exit_price = << p >>
                             /\ t.pnl = (p - entry) * q
                      /\ IF Q - q = 0
                         THEN s \notin DOMAIN positions'
                         ELSE /\ s \in DOMAIN positions'
                              /\ positions'[s].quantity = Q - q
                              /\ positions'[s].entry_price = entry ]_vars

\* C10 witness: a position opened by two buys at different prices has just
\* been closed in full.
C10_Witness ==
    /\ pcall.op = "execute_fill" /\ pcall.side = SELL /\ pcall.status = "ok"
    /\ pcall.symbol \notin DOMAIN positions
    /\ Len(trade_history) = 3
    /\ trade_history[1].symbol = pcall.symbol
    /\ trade_history[2].symbol = pcall.symbol
    /\ trade_history[1].entry_price # trade_history[2].entry_price
    /\ trade_history[3].pnl # 0

\* ====================================================== claims: engine
\* The trigger table of the specification, for an order with a price set.
TriggerTable(order_type, side, current_price, price) ==
    \/ order_type = STOP_LOSS /\ side = SELL /\ current_price <= price
    \/ order_type = STOP_LOSS /\ side = BUY /\ current_price >= price
    \/ order_type = TAKE_PROFIT /\ side = SELL /\ current_price >= price
    \/ order_type = TAKE_PROFIT /\ side = BUY /\ current_price <= price

\* The trigger condition of an order at a price: the table, and never for an
\* order without a price.
Fires(order, current_price) ==
    /\ order.price # None
    /\ TriggerTable(order.order_type, order.side, current_price, order.price[1])

PendingIds == { pending_orders[i].id : i \in 1 .. Len(pending_orders) }
FilledIds == { order_history[i][1].id : i \in 1 .. Len(order_history) }

\* C3: filled and cancelled are terminal - at most one order_history entry
\* per order id, a filled order is never in the pending set, and an order
\* removed by cancel_order is neither filled nor pending afterwards.
C3_FilledAndCancelledAreTerminal ==
    /\ \A i, j \in 1 .. Len(order_history) :
          order_history[i][1].id = order_history[j][1].id => i = j
    /\ \A i, j \in 1 .. Len(pending_orders) :
          pending_orders[i].id = pending_orders[j].id => i = j
    /\ FilledIds \cap PendingIds = {}
    /\ cancelled \cap (FilledIds \cup PendingIds) = {}

\* C3 witness: one order was cancelled and another, once pending, has just
\* been filled by check_pending_orders.
C3_Witness ==
    /\ cancelled # {}
    /\ ecall.op = "check_pending_orders"
    /\ ecall.ret_fills # << >>
    /\ FilledIds # {}

\* C4: check_pending_orders partitions the pending set - what stays is, in
\* the original order, exactly the orders without a supplied price or whose
\* trigger is false at it; the returned list has one 'filled' result per
\* removed order, in the same order, and nothing else.
C4_CheckPendingPartitions ==
    [][ ecall'.op = "check_pending_orders"
        => LET prices == ecall'.prices
               Stays(o) == \/ o.symbol \notin DOMAIN prices
                           \/ ~ Fires(o, prices[o.symbol])
               Leaves(o) == ~ Stays(o)
               removed == SelectSeq(pending_orders, Leaves)
               results == ecall'.ret_fills
           IN  /\ pending_orders' = SelectSeq(pending_orders, Stays)
               /\ Len(results) = Len(removed)
               /\ \A i \in 1 .. Len(results) :
                     /\ results[i].order_id = removed[i].id
                     /\ results[i].status = "filled"
               /\ \A i \in 1 .. Len(pending_orders') :
                     ~ ( /\ pending_orders'[i].symbol \in DOMAIN prices
                         /\ Fires(pending_orders'[i],
                                  prices[pending_orders'[i].symbol]) ) ]_vars

\* C4 witness: a call that filled one pending order and left another pending.
C4_Witness ==
    /\ ecall.op = "check_pending_orders"
    /\ Len(ecall.ret_fills) = 1
    /\ Len(pending_orders) = 1
    /\ pending_orders[1].symbol \in DOMAIN ecall.prices

\* C5: submit_order of a STOP_LOSS / TAKE_PROFIT order returns 'filled' and
\* leaves the pending set alone when the trigger holds at current_price;
\* otherwise it appends the order to the end of the pending set, returns a
\* 'pending' result without fill price or quantity, and records no fill.
C5_SubmitConditional ==
    [][ ( /\ ecall'.op = "submit_order"
          /\ ecall'.order[1].order_type \in {STOP_LOSS, TAKE_PROFIT} )
        => LET order == ecall'.order[1]
               current_price == ecall'.price[1]
           IN  /\ ecall'.ret_fill # None
               /\ ecall'.ret_fill[1].order_id = order.id
               /\ IF Fires(order, current_price)
                  THEN /\ ecall'.ret_fill[1].status = "filled"
                       /\ pending_orders' = pending_orders
                  ELSE /\ pending_orders' = Append(pending_orders, order)
                       /\ ecall'.ret_fill[1].status = "pending"
                       /\ ecall'.ret_fill[1].fill_price = None
                       /\ ecall'.ret_fill[1].fill_quantity = None
                       /\ order_history' = order_history ]_vars

\* C5 witness: a conditional order has just been queued behind another one.
C5_Witness ==
    /\ ecall.op = "submit_order"
    /\ ecall.ret_fill # None
    /\ ecall.ret_fill[1].status = "pending"
    /\ Len(pending_orders) = 2
    /\ pending_orders[2] = ecall.order[1]

\* C6: the trigger predicate equals the table - a conditional order is
\* filled at submission, and a pending order with a supplied price leaves
\* the pending set in check_pending_orders, exactly when the table says so;
\* an order without a price never fires and stays pending until cancelled.
C6_TriggerTable ==
    [][ /\ ( /\ ecall'.op = "submit_order"
             /\ ecall'.order[1].order_type \in {STOP_LOSS, TAKE_PROFIT} )
           => LET order == ecall'.order[1]
              IN  ( /\ ecall'.ret_fill # None
                    /\ ecall'.ret_fill[1].status = "filled" )
                  <=> ( /\ order.price # None
                        /\ TriggerTable(order.order_type, order.side,
                                        ecall'.price[1], order.price[1]) )
        /\ ecall'.op = "check_pending_orders"
           => \A i \in 1 .. Len(pending_orders) :
                 LET order == pending_orders[i]
                 IN  order.symbol \in DOMAIN ecall'.prices
                     => ( order.id \notin
                             { pending_orders'[j].id :
                                  j \in 1 .. Len(pending_orders') }
                          <=> ( /\ order.price # None
                                /\ TriggerTable(order.order_type, order.side,
                                       ecall'.prices[order.symbol],
                                       order.price[1]) ) )
        /\ \A i \in 1 .. Len(pending_orders) :
              ( /\ pending_orders[i].price = None
                /\ ~ ( /\ ecall'.op = "cancel_order"
                       /\ ecall'.order_id = pending_orders[i].id ) )
              => \E j \in 1 .. Len(pending_orders') :
                    pending_orders'[j] = pending_orders[i] ]_vars

\* C6 witness: a sell stop-loss has just been filled at a price equal to
\* its stop price.
C6_Witness ==
    /\ ecall.op = "check_pending_orders"
    /\ Len(ecall.ret_fills) = 1
    /\ Len(order_history) = 1
    /\ order_history[1][1].order_type = STOP_LOSS
    /\ order_history[1][1].side = SELL
    /\ order_history[1][1].price = << ecall.prices[order_history[1][1].symbol] >>

C8_UnsupportedFillModelFailsFast ==
    [][ ( /\ fill_model # "instant"
          /\ ecall'.op = "submit_order" )
        => ( /\ ecall'.raised = "ValueError"
             /\ ecall'.ret_fill = None
             /\ order_history' = order_history
             /\ pending_orders' = pending_orders ) ]_vars

\* f is num/den rounded to a whole number of cents, ties to the even cent.
IsNearestCent(f, num, den) ==
    LET diff == IF f * den >= num THEN f * den - num ELSE num - f * den
    IN  /\ f % Cent = 0
        /\ 2 * diff <= den * Cent
        /\ 2 * diff = den * Cent => (f \div Cent) % 2 = 0

\* C9: every fill has fill_quantity equal to the order's quantity and
\* fill_price equal to current_price * (1 +/- slippage_bps / 10000) (+ for
\* BUY, - for SELL) rounded to two decimals; a BUY never fills below and a
\* SELL never above the current price; 100.00 at 10 bps gives 100.10 / 99.90.
C9_FillPriceAndQuantity ==
    [][ /\ \A i \in (Len(order_history) + 1) .. Len(order_history') :
              LET order == order_history'[i][1]
                  result == order_history'[i][2]
                  current_price ==
                      IF ecall'.op = "submit_order" THEN ecall'.price[1]
                      ELSE ecall'.prices[order.symbol]
                  factor == IF order.side = BUY THEN 10000 + slippage_bps
                            ELSE 10000 - slippage_bps
              IN  /\ result.status = "filled"
                  /\ result.order_id = order.id
                  /\ result.fill_quantity = << order.quantity >>
                  /\ result.fill_price # None
                  /\ IsNearestCent(result.fill_price[1],
                                   current_price * factor, 10000)
                  /\ order.side = BUY => result.fill_price[1] >= current_price
                  /\ order.side = SELL => result.fill_price[1] <= current_price
                  /\ ( slippage_bps = 10 /\ current_price = 100 * Unit )
                     => result.fill_price[1] =
                           IF order.side = BUY THEN 10010 * Cent
                           ELSE 9990 * Cent
                  /\ \/ ecall'.ret_fill = << result >>
                     \/ \E k \in 1 .. Len(ecall'.ret_fills) :
                           ecall'.ret_fills[k] = result
        /\ ( ecall'.op = "submit_order" /\ ecall'.ret_fill # None
             /\ ecall'.ret_fill[1].status = "filled" )
           => Len(order_history') = Len(order_history) + 1
        /\ ecall'.op = "check_pending_orders"
           => Len(order_history') = Len(order_history) + Len(ecall'.ret_fills)
      ]_vars

\* C9 witness: a pending sell order has just been filled by
\* check_pending_orders at 1.00 with 50 bps of slippage (0.995, a tie).
C9_Witness ==
    /\ ecall.op = "check_pending_orders"
    /\ slippage_bps = 50
    /\ Len(ecall.ret_fills) = 1
    /\ Len(order_history) = 1
    /\ order_history[1][1].side = SELL
    /\ order_history[1][1].quantity = 2
    /\ ecall.prices[order_history[1][1].symbol] = 1 * Unit
    /\ ecall.ret_fills[1].fill_price = << 100 * Cent >>

\* ============================================= claims: portfolio (continued)
\* x is num/den rounded to the nearest whole number, ties to even (den > 0).
IsNearestInteger(x, num, den) ==
    LET diff == IF x * den >= num THEN x * den - num ELSE num - x * den
    IN  /\ 2 * diff <= den
        /\ 2 * diff = den => x % 2 = 0

\* C11: a BUY of q at p decreases cash by q * p, leaves realized_pnl alone,
\* appends one BUY trade record and leaves a position of quantity old_qty + q
\* whose entry price is p for a new position and otherwise the Decimal
\* quotient (old_entry * old_qty + p * q) / (old_qty + q): the nearest
\* representable value, the exact average whenever that is representable
\* (100 @ 150 then 100 @ 160 gives 155).
C11_BuyEffects ==
    [][ ( /\ pcall'.op = "execute_fill"
          /\ pcall'.side = BUY
          /\ pcall'.status = "ok" )
        => LET s == pcall'.symbol
               q == pcall'.quantity
               p == pcall'.price
           IN  /\ cash' = cash - q * p
               /\ realized_pnl' = realized_pnl
               /\ Len(trade_history') = Len(trade_history) + 1
               /\ SubSeq(trade_history', 1, Len(trade_history)) = trade_history
               /\ LET t == trade_history'[Len(trade_history')]
                  IN  /\ t.symbol = s /\ t.side = BUY /\ t.quantity = q
                      /\ t.entry_price = p /\ t.exit_price = << >>
                      /\ ~ t.is_closed
               /\ s \in DOMAIN positions'
               /\ IF s \in DOMAIN positions
                  THEN LET Q == positions[s].quantity
                           e == positions[s].entry_price
                       IN  /\ positions'[s].quantity = Q + q
                           /\ IsNearestInteger(positions'[s].entry_price,
                                               e * Q + p * q, Q + q)
                           /\ (e * Q + p * q) % (Q + q) = 0
                              => positions'[s].entry_price * (Q + q)
                                    = e * Q + p * q
                  ELSE /\ positions'[s].quantity = q
                       /\ positions'[s].entry_price = p
               /\ AvgPrice(Position("AAPL", 100, 150 * Unit, 150 * Unit, 0),
                           100, 160 * Unit) = 155 * Unit ]_vars

\* C11 witness: a buy of 2 @ 2 has just been averaged into a position of
\* 1 @ 1.
C11_Witness ==
    /\ pcall.op = "execute_fill" /\ pcall.side = BUY /\ pcall.status = "ok"
    /\ pcall.quantity = 2 /\ pcall.price = 2 * Unit
    /\ Len(trade_history) = 2
    /\ trade_history[1].symbol = pcall.symbol
    /\ trade_history[1].side = BUY
    /\ trade_history[1].quantity = 1
    /\ trade_history[1].entry_price = 1 * Unit
    /\ positions[pcall.symbol].quantity = 3

\* C12: high_water_mark never decreases; only update_high_water_mark changes
\* it; that call sets it to total_value exactly when total_value exceeds it
\* and is otherwise a no-op; a second call in a row changes nothing.
C12_HighWaterMarkMonotonic ==
    [][ /\ high_water_mark' >= high_water_mark
        /\ high_water_mark' # high_water_mark
           => pcall'.op = "update_high_water_mark"
        /\ pcall'.op = "update_high_water_mark"
           => /\ high_water_mark' =
                    IF cash + PositionMarketValue > high_water_mark
                    THEN cash + PositionMarketValue
                    ELSE high_water_mark
              /\ cash' = cash /\ positions' = positions
              /\ current_prices' = current_prices
              /\ realized_pnl' = realized_pnl
              /\ trade_history' = trade_history
              /\ ~ (cash' + PositionMarketValue' > high_water_mark') ]_vars

\* C12 witness: the mark was raised above the initial capital and the value
\* has since fallen below it, and update_high_water_mark has just been called.
C12_Witness ==
    /\ pcall.op = "update_high_water_mark"
    /\ high_water_mark > initial_capital
    /\ cash + PositionMarketValue < high_water_mark

C14_RoundedCase ==
    /\ high_water_mark = 6 * Unit
    /\ cash + PositionMarketValue = 5 * Unit
    /\ drawdown = 1667


\* ======================================================== claims: drivers
\* the total value of a portfolio value
PortfolioValue(pf) == TotalValueOf(pf.cash, pf.positions, pf.current_prices)

\* every entry of the equity curve is at most the mark
MarkCovers(pf, equity_curve) ==
    \A i \in 1 .. Len(equity_curve) : pf.high_water_mark >= equity_curve[i]

\* C13: during a backtest or forward run, after each processed bar the
\* portfolio's high_water_mark is at least as large as every total value
\* appended to the equity curve so far.
C13_HighWaterMarkCoversEquity ==
    /\ MarkCovers(fwd.portfolio, fwd.equity_curve)
    /\ MarkCovers(bt.portfolio, bt.equity_curve)


\* a step that is an on_bar call
IsOnBarCall == dcall'.calls = dcall.calls + 1

\* the runner r, but for its pause flag
Unpaused(r) == [ r EXCEPT !.paused = FALSE ]

\* C15: while paused, every on_bar call returns false and changes nothing
\* (bar_count, equity curve, trade count, portfolio, strategy data); after
\* resume the runner goes on from the state it had, so that it is always in
\* the state of a never-paused runner that was fed the processed bars only.
C15_PauseResume ==
    [][ /\ (IsOnBarCall /\ fwd.paused) =>
              (dcall'.ret = "False" /\ fwd' = fwd)
        /\ (IsOnBarCall /\ ~fwd.paused) => dcall'.ret # "False"
        /\ Unpaused(fwd') = ref' ]_vars

\* a bar processed after a resume, a bar having been skipped before it
C15_Witness ==
    /\ ~fwd.paused
    /\ dcall.ret = "True"
    /\ dcall.calls = 3
    /\ fwd.bar_count = 2
    /\ fwd.total_trades >= 1

\* the outcome the two modes are compared by
SameOutcome(r, b) ==
    /\ r.equity_curve = b.equity_curve
    /\ r.total_trades = b.total_trades
    /\ r.portfolio.cash = b.portfolio.cash
    /\ r.portfolio.positions = b.portfolio.positions

\* C17: feeding a bar list one bar at a time to a never-paused
\* ForwardTestRunner produces the same equity curve, trade count, cash and
\* positions as BacktestEngine.run on the same list (same capital,
\* position_size_pct, slippage, equivalent strategy); the two fail on the
\* same bar, with the same error, when they fail.
C17_ForwardEqualsBacktest ==
    [][ /\ (bt'.status # "raised" /\ bt'.strategy_bars = ref'.strategy_bars)
              => SameOutcome(ref', bt')
        /\ (bt'.status = "returned")
              => /\ bt'.result[1].equity_curve = bt'.equity_curve
                 /\ bt'.result[1].total_trades = bt'.total_trades
        /\ (bt.status = "running" /\ ref' # ref)
              => ((bt'.status = "raised") <=> (dcall'.ref_ret = "ValueError"))
      ]_vars

\* a returned run of three bars with a buy and a sell at a different price
C17_Witness ==
    /\ bt.status = "returned"
    /\ bt.strategy_bars = ref.strategy_bars
    /\ Len(bt.equity_curve) = 3
    /\ bt.total_trades >= 2
    /\ bt.portfolio.realized_pnl # 0

\* floor(cash * position_size_pct / close) for a directional signal, else 0
WantedQuantity(signal, available, close, position_size_pct) ==
    IF signal # None /\ signal[1] \in {LONG, SHORT}
    THEN (available * position_size_pct) \div (PctScale * close)
    ELSE 0

\* the last entry of a sequence
Last(seq) == seq[Len(seq)]

\* The effects of one bar on a driver, from its state b before the bar to its
\* state a after it; completed tells that the step did not raise.
BarEffects(b, a, bar, signal, completed) ==
    LET wanted == WantedQuantity(signal, b.portfolio.cash, bar.close,
                                 b.position_size_pct)
    IN  /\ b.engine.pending_orders = << >>
        /\ IF wanted > 0
           THEN /\ Len(a.engine.order_history) =
                       Len(b.engine.order_history) + 1
                /\ LET order == Last(a.engine.order_history)[1]
                       result == Last(a.engine.order_history)[2]
                   IN  /\ order.order_type = MARKET
                       /\ order.symbol = bar.symbol
                       /\ order.side = IF signal[1] = LONG THEN BUY ELSE SELL
                       /\ order.quantity = wanted
                       /\ completed =>
                            /\ a.portfolio.current_prices[bar.symbol] =
                                   result.fill_price[1]
                            /\ a.total_trades = b.total_trades + 1
                            /\ a.portfolio.cash = b.portfolio.cash +
                                   (IF order.side = BUY THEN -1 ELSE 1)
                                   * wanted * result.fill_price[1]
           ELSE /\ a.engine.order_history = b.engine.order_history
                /\ a.portfolio.current_prices[bar.symbol] = bar.close
                /\ a.total_trades = b.total_trades
                /\ a.portfolio.cash = b.portfolio.cash
                /\ completed
        /\ completed =>
              a.equity_curve = Append(b.equity_curve, PortfolioValue(a.portfolio))

\* C18: on each bar the close is pushed as the mark price first, then the
\* pending orders are re-evaluated, then at most one MARKET order is
\* submitted: iff the signal is present and directional (LONG -> BUY,
\* SHORT -> SELL) and floor(cash * position_size_pct / close) > 0, with
\* exactly that quantity; the equity value is appended last and reflects the
\* bar's fills.
C18_PerBarEffects ==
    [][ /\ (IsOnBarCall /\ ~fwd.paused) =>
              BarEffects(fwd, fwd', dcall'.bar[1], dcall'.signal,
                         dcall'.ret = "True")
        /\ (IsOnBarCall /\ ~fwd.paused /\ bt.status = "running") =>
              BarEffects(bt, bt', dcall'.bar[1], dcall'.signal,
                         bt'.status = "running") ]_vars

\* a bar on which a SHORT signal sold part of a position, at a slipped price
C18_Witness ==
    /\ dcall.ret = "True"
    /\ dcall.signal = Some(SHORT)
    /\ fwd.engine.order_history # << >>
    /\ Last(fwd.engine.order_history)[1].id = fwd.bar_count
    /\ Last(fwd.engine.order_history)[1].side = SELL
    /\ Last(fwd.engine.order_history)[2].fill_price[1] # dcall.bar[1].close

\* C19: BacktestEngine.run on n bars returns an equity curve of length n,
\* and in every reachable state of a ForwardTestRunner
\* len(equity_curve) == bar_count, each entry being the portfolio's total
\* value at the end of its bar.
C19_EquityCurveLength ==
    /\ Len(fwd.equity_curve) = fwd.bar_count
    /\ fwd.equity_curve # << >> =>
          Last(fwd.equity_curve) = PortfolioValue(fwd.portfolio)
    /\ bt.status = "returned" =>
          Len(bt.result[1].equity_curve) = bt.strategy_bars

\* C20: whatever the strategy answers, BacktestEngine.run ends by returning
\* a BacktestResult; it never propagates the error of the portfolio.
C20_RunNeverPropagates == bt.status # "raised"

\* C16: two freshly constructed drivers fed the same bars, with the same
\* configuration and equivalent strategies, have identical equity curves and
\* trade counts (and portfolios), whatever their wall clocks read.
C16_Determinism ==
    /\ bt.status = bt2.status
    /\ bt.equity_curve = bt2.equity_curve
    /\ bt.total_trades = bt2.total_trades
    /\ bt.trade_log = bt2.trade_log
    /\ bt.portfolio = bt2.portfolio
    /\ bt.result = bt2.result

\* two returned runs with trades, whose fills carry different timestamps
C16_Witness ==
    /\ bt.status = "returned"
    /\ bt.total_trades >= 2
    /\ Len(bt.equity_curve) = 3
    /\ bt.engine.fill_times # bt2.engine.fill_times


\* C21: if ForwardTestRunner.on_bar raises, then bar_count, the equity curve,
\* the trade count, the portfolio, the engine's order_history and the
\* strategy's data buffer are all the same as before the call.
C21_RaisingOnBarChangesNothing ==
    [][ (IsOnBarCall /\ dcall'.ret = "ValueError") =>
            /\ fwd'.bar_count = fwd.bar_count
            /\ fwd'.equity_curve = fwd.equity_curve
            /\ fwd'.total_trades = fwd.total_trades
            /\ fwd'.portfolio = fwd.portfolio
            /\ fwd'.engine.order_history = fwd.engine.order_history
            /\ fwd'.strategy_bars = fwd.strategy_bars ]_vars

\* C29: after every bar processed by BacktestEngine.run or
\* ForwardTestRunner.on_bar the portfolio's cash is >= 0, for
\* initial_capital >= 0, 0 < position_size_pct <= 1 and slippage_bps >= 0.
C29_CashNeverNegative ==
    /\ fwd.portfolio.cash >= 0
    /\ bt.portfolio.cash >= 0


\* ============================================== claims: engine (continued)
\* seq is an initial segment of longer
IsPrefix(seq, longer) ==
    /\ Len(seq) <= Len(longer)
    /\ SubSeq(longer, 1, Len(seq)) = seq

\* the entries a step appended to order_history
Appended == SubSeq(order_history', Len(order_history) + 1, Len(order_history'))

\* C22: every FillResult that submit_order or check_pending_orders returns
\* (filled or pending) is recorded in order_history paired with its order,
\* and order_history is append-only under every operation.
C22_HistoryRecordsEveryResult ==
    [][ /\ IsPrefix(order_history, order_history')
        /\ (ecall'.op = "submit_order" /\ ecall'.ret_fill # None) =>
              Appended = << << ecall'.order[1], ecall'.ret_fill[1] >> >>
        /\ (ecall'.op = "check_pending_orders") =>
              /\ Len(Appended) = Len(ecall'.ret_fills)
              /\ \A i \in 1 .. Len(Appended) :
                    /\ Appended[i][2] = ecall'.ret_fills[i]
                    /\ Appended[i][1].id = ecall'.ret_fills[i].order_id
        /\ (ecall'.op = "cancel_order") => Appended = << >> ]_vars


\* =========================================== claims: portfolio (frame, marks)
\* C23: after any sequence of execute_fill calls with quantity > 0 and
\* update_price calls, every position of the position set has a quantity
\* strictly greater than zero, and there is one position per symbol (the
\* entry kept under a symbol is a position of that symbol).
C23_PositionSet ==
    \A s \in DOMAIN positions :
        /\ positions[s].quantity > 0
        /\ positions[s].symbol = s

\* a sell has just taken a position to exactly zero while another one stays
C23_Witness ==
    /\ pcall.op = "execute_fill" /\ pcall.side = SELL /\ pcall.status = "ok"
    /\ pcall.symbol \notin DOMAIN positions
    /\ DOMAIN positions # {}

\* the value of the open positions by the mark of each position record
RecordedPositionValue ==
    SumOver(DOMAIN positions,
            [s \in DOMAIN positions |->
                positions[s].quantity * positions[s].current_price])

\* C25: update_price(symbol, price) only refreshes the mark price: cash,
\* realized_pnl, high_water_mark, trade_history, the set of open symbols and
\* every position's quantity and entry price are unchanged, positions of
\* other symbols are untouched; afterwards total_value is cash plus each
\* position's quantity times its latest mark.
C25_UpdatePriceFrame ==
    [][ pcall'.op = "update_price"
        => LET s == pcall'.symbol
               p == pcall'.price
           IN  /\ cash' = cash
               /\ realized_pnl' = realized_pnl
               /\ high_water_mark' = high_water_mark
               /\ trade_history' = trade_history
               /\ DOMAIN positions' = DOMAIN positions
               /\ \A x \in DOMAIN positions :
                     /\ positions'[x].quantity = positions[x].quantity
                     /\ positions'[x].entry_price = positions[x].entry_price
                     /\ x # s => positions'[x] = positions[x]
               /\ \A x \in (DOMAIN current_prices) \ {s} :
                     current_prices'[x] = current_prices[x]
               /\ current_prices'[s] = p
               /\ s \in DOMAIN positions => positions'[s].current_price = p
               /\ total_value' = cash' + RecordedPositionValue' ]_vars

\* the price of a held symbol has just moved, beside a second open position
C25_Witness ==
    /\ pcall.op = "update_price"
    /\ pcall.symbol \in DOMAIN positions
    /\ positions[pcall.symbol].entry_price # pcall.price
    /\ Cardinality(DOMAIN positions) = 2

\* the mark price of a symbol: the price table, else the position record
MarkOf(symbol) ==
    IF symbol \in DOMAIN current_prices THEN current_prices[symbol]
    ELSE IF symbol \in DOMAIN positions THEN positions[symbol].current_price
    ELSE 0

\* C30: a successful execute_fill (BUY or SELL) at price p on a symbol held
\* with quantity Q and marked at m changes total_value by exactly Q * (p - m)
\* (by nothing when Q = 0); afterwards the mark of the symbol is p in the
\* price table and in the position record.
C30_FillRemarksPosition ==
    [][ (pcall'.op = "execute_fill" /\ pcall'.status = "ok")
        => LET s == pcall'.symbol
               p == pcall'.price
           IN  /\ total_value' - total_value = Held(s) * (p - MarkOf(s))
               /\ s \in DOMAIN current_prices'
               /\ current_prices'[s] = p
               /\ s \in DOMAIN positions' => positions'[s].current_price = p
      ]_vars

\* a buy has just added to a position at a price other than its entry price,
\* and the re-marks have moved the total value away from the starting capital
C30_Witness ==
    /\ pcall.op = "execute_fill" /\ pcall.side = BUY /\ pcall.status = "ok"
    /\ pcall.symbol \in DOMAIN positions
    /\ positions[pcall.symbol].quantity > pcall.quantity
    /\ positions[pcall.symbol].entry_price # pcall.price
    /\ total_value # initial_capital


\* C24: calculate_max_position_size(symbol, price) returns
\* floor(total_value * max_position_size_pct / price) for every price > 0, so
\* the returned quantity times price never exceeds
\* total_value * max_position_size_pct.
C24_MaxPositionSizeIsFloor ==
    \A symbol \in Symbols, price \in FillPrices :
        /\ calculate_max_position_size(symbol, price) =
               (total_value * MaxPositionSizePct) \div (100 * price)
        /\ calculate_max_position_size(symbol, price) * price * 100 <=
               total_value * MaxPositionSizePct


\* C26: signal_to_order fails with ValueError for a NEUTRAL signal and
\* creates no order; for LONG it returns a BUY order and for SHORT a SELL
\* order that carries the signal's symbol, timestamp and strategy_id and the
\* requested quantity, order type and price; the pending orders and the order
\* history are unchanged.
C26_SignalToOrder ==
    [][ scall' # scall
        => LET signal == scall'.signal[1]
           IN  /\ pending_orders' = pending_orders
               /\ order_history' = order_history
               /\ IF signal.direction = NEUTRAL
                  THEN scall'.raised = "ValueError" /\ scall'.ret = None
                  ELSE /\ scall'.raised = ""
                       /\ scall'.ret # None
                       /\ LET order == scall'.ret[1]
                          IN  /\ signal.direction = LONG => order.side = BUY
                              /\ signal.direction = SHORT => order.side = SELL
                              /\ order.symbol = signal.symbol
                              /\ order.timestamp = signal.timestamp
                              /\ order.strategy_id = signal.strategy_id
                              /\ order.quantity = scall'.quantity
                              /\ order.order_type = scall'.order_type
                              /\ order.price = scall'.price ]_vars

\* a NEUTRAL signal has just been refused by an engine that holds a pending
\* order
C26_Witness ==
    /\ scall.raised = "ValueError"
    /\ scall.signal[1].direction = NEUTRAL
    /\ pending_orders # << >>

C28_ResetRestoresInitialConditions ==
    [][ (acall'.op = "reset")
        => /\ acall'.raised = ""
           /\ actor'.data_buffer = << >>
           /\ ~ actor'.is_disabled
           /\ actor'.portfolio.cash = acall'.initial_capital
           /\ actor'.portfolio.positions = << >>
           /\ actor'.portfolio.realized_pnl = 0
           /\ actor'.portfolio.high_water_mark = acall'.initial_capital
      ]_vars

====
